---- MODULE Spec2Model ----
(***************************************************************************)
(* Model of TranslatePlusClient (src/unnamed/part_000): the constructor,   *)
(* the request executor makeRequest with its admission gate, retry loop    *)
(* and error classification, the wrappers that validate their input,       *)
(* translateConcurrent, and downloadI18nFile, which calls fetch directly.  *)
(*                                                                         *)
(* JavaScript runs one task at a time, so every action below is one run    *)
(* of a handler from the point where it is resumed to its next await.      *)
(***************************************************************************)
EXTENDS Integers, Sequences, FiniteSets, TLC

\* ------------------------------------------------------------------ bounds
\* number of call sites issuing requests against one client instance
NReq == 2
\* options.maxRetries given at construction ranges over 0..MaxRetriesOpt
MaxRetriesOpt == 2
\* options.maxConcurrent given at construction ranges over 0..MaxConcurrentOpt
MaxConcurrentOpt == 2
\* options.maxRetries of the clients answered Retry-After: 60 ranges over
\* 1..LongRetries
LongRetries == 8
\* options.timeout given at construction ranges over 0..TimeoutOpt (ms)
TimeoutOpt == 2
\* ------------------------------------------------------- program constants
DefaultMaxRetries == 3
DefaultMaxConcurrent == 5
DefaultTimeout == 30000
MaxBatchTexts == 100

Requests == 1..NReq

\* the client instances of the process
Clients == {1, 2}

\* statuses the service answers with
Statuses == {200, 401, 402, 403, 429, 500}

\* response bodies: a JSON object with a detail field, a JSON object
\* without one, the JSON value null, and text that is not JSON
Bodies == {"detail", "object", "null", "invalid"}

\* options.apiKey: empty, left out, or a key
ApiKeys == {"", "absent", "test-api-key"}

\* lengths of options.texts given to translateBatch (0 also stands for a
\* texts field left out)
BatchLengths == {0, 1, MaxBatchTexts, MaxBatchTexts + 1}

\* options.format given to translateSubtitles
Formats == {"srt", "vtt", "SRT", ""}

\* the Retry-After header of a 429 response: left out, a number of seconds,
\* or an HTTP date
RetryAfters == {"absent", "0", "1", "60", "Wed, 21 Oct 2015 07:28:00 GMT"}

\* options.timeout: 0 stands for a timeout left out
Timeouts == 0..TimeoutOpt

\* options.baseUrl as the sequence of its parts: left out or empty, an
\* origin, an origin followed by one or two slashes, a single slash
BaseUrls ==
    {<<>>, <<"https://example.test">>, <<"https://example.test", "/">>,
     <<"https://example.test", "/", "/">>, <<"/">>}

VARIABLES
    options,        \* the ClientOptions given to each constructor
    client,         \* each instance: absent, new, constructed or failed
    cfg,            \* the configuration fields of each instance
    owner,          \* the instance each call site uses
    load,           \* number of call sites
    ops,            \* the operations the call sites use
    service,        \* the Retry-After headers the service answers with
    activeRequests, \* this.activeRequests of each instance
    pc,             \* where each call is suspended
    op,             \* which routine the call runs
    attempt,        \* loop variable of the retry loop
    status,         \* response.status of the response being decoded
    lastError,      \* lastError of the retry loop
    result,         \* how the call settled
    calls,          \* fetch() calls made by the call so far
    delay,          \* the delay of the last backoff sleep of the call
    timer,          \* the abort timer of the attempt: pending or none
    controller,     \* the attempt whose AbortController the pending timer aborts
    tc              \* the translateConcurrent call in progress

vars == <<options, client, cfg, owner, load, ops, service, activeRequests, pc,
          op, attempt, status, lastError, result, calls, delay, timer,
          controller, tc>>

\* what no call changes
fixed == <<options, client, cfg, owner, load, ops, service>>

\* an outcome of a call: the class of the value or error, error.statusCode
\* (0 when undefined), the kind of error.message, the value returned, the
\* number of retries error.message states (0 when it states none)
Outcome(class, statusCode, msg, value) ==
    [class |-> class, statusCode |-> statusCode, msg |-> msg, value |-> value,
     retries |-> 0]

Err(class, statusCode, msg) == Outcome(class, statusCode, msg, "none")

NoError == Err("none", 0, "none")

\* a JavaScript number used as a delay: a number of milliseconds or NaN;
\* NoDelay when the call has not slept
Ms(n) == [kind |-> "ms", ms |-> n]
NaN == [kind |-> "NaN", ms |-> 0]
NoDelay == [kind |-> "none", ms |-> 0]

\* parseInt(response.headers.get('Retry-After') || '2', 10), in seconds
ParseRetryAfter(h) ==
    CASE h = "absent" -> Ms(2)
      [] h = "0" -> Ms(0)
      [] h = "1" -> Ms(1)
      [] h = "60" -> Ms(60)
      [] OTHER -> NaN

\* a * n on numbers
Times(a, n) == IF a.kind = "NaN" THEN NaN ELSE Ms(a.ms * n)

\* Math.min(a, b): NaN when an argument is NaN
MathMin(a, b) ==
    IF a.kind = "NaN" \/ b.kind = "NaN" THEN NaN
    ELSE IF a.ms <= b.ms THEN a ELSE b

\* a default that replaces nothing: the value is stored as given
OrDefaultNever(v, d) == v

\* `a || b` on numbers: 0 and undefined are falsy
OrDefault(v, d) == IF v = 0 THEN d ELSE v

\* (options.baseUrl || 'https://api.translateplus.io'): the empty string and
\* undefined are falsy; a URL is the sequence of its parts
OrDefaultUrl(u) == IF u = <<>> THEN <<"https://api.translateplus.io">> ELSE u

\* .replace(/\/$/, ''): one trailing slash is removed
StripSlash(u) ==
    IF Len(u) > 0 /\ u[Len(u)] = "/" THEN SubSeq(u, 1, Len(u) - 1) ELSE u

\* the fields of an instance before its constructor has assigned them
Unset ==
    [apiKey |-> "undefined", baseUrl |-> <<>>, timeout |-> 0,
     maxRetries |-> 0, maxConcurrent |-> 0]

\* only a key left out is refused
ApiKeyMissingOnlyAbsent(opts) == opts.apiKey = "absent"

\* if (!options.apiKey)
ApiKeyMissing(opts) == opts.apiKey \in {"", "absent"}

\* constructor: the stored configuration
Constructor(opts) ==
    [apiKey        |-> opts.apiKey,
     baseUrl       |-> StripSlash(OrDefaultUrl(opts.baseUrl)),
     timeout       |-> OrDefault(opts.timeout, DefaultTimeout),
     maxRetries    |-> OrDefault(opts.maxRetries, DefaultMaxRetries),
     maxConcurrent |-> OrDefault(opts.maxConcurrent, DefaultMaxConcurrent)]

Options(k, m, c) ==
    [apiKey |-> k, baseUrl |-> <<>>, timeout |-> 0,
     maxRetries |-> m, maxConcurrent |-> c]

\* options that give a base URL and a timeout next to one retry and one slot
OptionsUrl(u, t) ==
    [apiKey |-> "test-api-key", baseUrl |-> u, timeout |-> t,
     maxRetries |-> 1, maxConcurrent |-> 1]

\* the operations of the client that end in makeRequest directly, and all
\* the operations the model has
Direct == {"makeRequest", "downloadI18nFile"}
Validating == {"translateBatch", "translateSubtitles", "createI18nJob"}
Operations == Direct \cup Validating \cup {"translateConcurrent"}

\* a program using the client: its call sites, the instances they use, the
\* options the instances are constructed with, the operations it calls, and
\* the Retry-After headers the service sends it
Scenario(n, both, opts, names, hs) ==
    [load |-> n,
     service |-> hs,
     clients |-> IF both THEN {1, 2} ELSE {1},
     owner |-> [r \in Requests |-> IF both /\ r = 2 THEN 2 ELSE 1],
     options |-> opts,
     ops |-> names]

\* the programs explored: one call site, every combination of options (0
\* stands for an option left out), every operation and every Retry-After
\* header; one call site on a client with maxRetries up to LongRetries
\* answered Retry-After: 60; NReq call sites sharing a client, with maxRetries: 1
\* and a gate of NReq - 1 slots, calling the direct operations; NReq call
\* sites used by translateConcurrent on a client of one or two slots; two
\* call sites sharing a client of one slot and calling the validating
\* operations; two clients, of one and two slots, with one call site each;
\* one call site on a client constructed with every base URL and timeout
Scenarios ==
    {Scenario(1, FALSE, [x \in Clients |-> Options(k, m, c)], Operations,
              RetryAfters) :
        k \in ApiKeys, m \in 0..MaxRetriesOpt, c \in 0..MaxConcurrentOpt}
    \cup
    {Scenario(1, FALSE, [x \in Clients |-> Options("test-api-key", m, 1)],
              {"makeRequest"}, {"60"}) : m \in 1..LongRetries}
    \cup
    {Scenario(NReq, FALSE,
              [x \in Clients |-> Options("test-api-key", 1, NReq - 1)], Direct,
              {"absent"})}
    \cup
    {Scenario(NReq, FALSE, [x \in Clients |-> Options("test-api-key", 1, c)],
              {"translateConcurrent"}, {"absent"}) : c \in {1, 2}}
    \cup
    {Scenario(2, FALSE, [x \in Clients |-> Options("test-api-key", 1, 1)],
              Validating, {"absent"})}
    \cup
    {Scenario(2, TRUE, [x \in Clients |-> Options("test-api-key", 1, x)],
              Direct, {"absent"})}
    \cup
    {Scenario(1, FALSE, [x \in Clients |-> OptionsUrl(u, t)],
              {"makeRequest"}, {"absent"}) : u \in BaseUrls, t \in Timeouts}

NoBatch == [phase |-> "none", n |-> 0, order |-> <<>>, out |-> <<>>]

Init ==
    \E s \in Scenarios :
        /\ options = s.options
        /\ client = [x \in Clients |-> IF x \in s.clients THEN "new" ELSE "absent"]
        /\ cfg = [x \in Clients |-> Unset]
        /\ owner = s.owner
        /\ load = s.load
        /\ ops = s.ops
        /\ service = s.service
        /\ activeRequests = [x \in Clients |-> 0]
        /\ pc = [r \in Requests |-> "idle"]
        /\ op = [r \in Requests |-> "none"]
        /\ attempt = [r \in Requests |-> 0]
        /\ status = [r \in Requests |-> 0]
        /\ lastError = [r \in Requests |-> NoError]
        /\ result = [r \in Requests |-> NoError]
        /\ calls = [r \in Requests |-> 0]
        /\ delay = [r \in Requests |-> NoDelay]
        /\ timer = [r \in Requests |-> "none"]
        /\ controller = [r \in Requests |-> 0]
        /\ tc = NoBatch

\* new TranslatePlusClient(options): the key is tested before any field
\* is assigned
Construct(x) ==
    /\ client[x] = "new"
    /\ IF ApiKeyMissing(options[x])
       THEN /\ client' = [client EXCEPT ![x] = "failed"]
            /\ UNCHANGED cfg
       ELSE /\ client' = [client EXCEPT ![x] = "constructed"]
            /\ cfg' = [cfg EXCEPT ![x] = Constructor(options[x])]
    /\ UNCHANGED <<options, owner, load, ops, service, activeRequests, pc, op,
                   attempt, status, lastError, result, calls, delay, timer,
                   controller, tc>>

\* ---------------------------------------------------------------- helpers
InFlight(x) ==
    {r \in Requests : owner[r] = x /\ pc[r] \in {"fetching", "dl_fetching"}}

\* response.json(): the decoded value, or a rejection for text that is not JSON
ParseJson(body) ==
    CASE body = "detail"  -> [ok |-> TRUE,  value |-> "object_with_detail"]
      [] body = "object"  -> [ok |-> TRUE,  value |-> "object"]
      [] body = "null"    -> [ok |-> TRUE,  value |-> "null"]
      [] body = "invalid" -> [ok |-> FALSE, value |-> "none"]

\* response.json().catch(() => ({}))
ErrorData(body) ==
    IF ParseJson(body).ok THEN ParseJson(body).value ELSE "object"

\* the gate test on a counter value n of instance x
GateClosedAt(x, n) == n >= cfg[x].maxConcurrent

\* the gate tested with > instead of >=
GateClosedOffByOne(x) == activeRequests[x] > cfg[x].maxConcurrent

\* the gate tested on a counter shared by all instances
GateClosedShared(x) ==
    activeRequests[1] + activeRequests[2] >= cfg[x].maxConcurrent

\* while (this.activeRequests >= this.maxConcurrent)
GateClosed(x) == GateClosedAt(x, activeRequests[x])

\* a backoff allowed at the last attempt as well
BudgetLeftInclusive(r) == attempt[r] <= cfg[owner[r]].maxRetries

\* for (...; attempt <= this.maxRetries; ...) with the `attempt < this.maxRetries`
\* test that guards every backoff
BudgetLeft(r) == attempt[r] < cfg[owner[r]].maxRetries

\* the catch blocks rethrowing the SyntaxError of response.json() as well
NeverRetriedSyntax(e) ==
    e.class \in {"Authentication", "InsufficientCredits", "SyntaxError"}

\* the two catch blocks rethrow these classes and retry everything else
NeverRetried(e) == e.class \in {"Authentication", "InsufficientCredits"}

\* the error thrown for a response with status >= 400 other than a 429 that
\* is handled by the rate-limit branch; errorData.detail on null is a TypeError
StatusError(s, body) ==
    IF ErrorData(body) = "null" THEN Err("TypeError", 0, "type")
    ELSE IF s = 401 \/ s = 403 THEN Err("Authentication", s, "status")
    ELSE IF s = 402 THEN Err("InsufficientCredits", s, "status")
    ELSE IF s = 429 THEN Err("RateLimit", s, "status")
    ELSE Err("API", s, "status")

\* throw new TranslatePlusAPIError(`Request failed after ... : ${lastError?.message}`)
Exhausted(r, e) ==
    [Err("API", 0, e.msg) EXCEPT !.retries = cfg[owner[r]].maxRetries]

\* the exponent counted from the first retry instead of the first attempt
BackoffOffByOne(k) == 2^(k + 1) * 1000

\* a backoff that does not grow
BackoffConstant(k) == 1000

\* Math.pow(2, attempt) * 1000
Backoff(k) == 2^k * 1000

\* the delay the service suggests, taken as it is
RateLimitDelayUncapped(h, k) == Times(ParseRetryAfter(h), 1000)

\* Math.min(retryAfter * 1000, Math.pow(2, attempt) * 1000)
RateLimitDelay(h, k) ==
    MathMin(Times(ParseRetryAfter(h), 1000), Ms(Backoff(k)))

\* a decrement placed where an exceptional exit skips it
ReleaseSkipped(n) == n

\* finally { this.activeRequests-- }
Release(n) == n - 1

\* the calls made by the translateConcurrent call in progress
BatchMembers == IF tc.phase = "running" THEN 1..tc.n ELSE {}

\* the completion order of the calls of translateConcurrent
NoteSettled(r) ==
    IF r \in BatchMembers THEN [tc EXCEPT !.order = Append(@, r)] ELSE tc

\* the array translateConcurrent returned is the caller's: the model keeps
\* it until the next call is issued
Forget == IF tc.phase \in {"resolved", "rejected"} THEN NoBatch ELSE tc

\* the call settles with outcome e; the finally block runs
Settle(r, e) ==
    /\ pc' = [pc EXCEPT ![r] = "settled"]
    /\ result' = [result EXCEPT ![r] = e]
    /\ activeRequests' = [activeRequests EXCEPT ![owner[r]] = Release(@)]
    /\ attempt' = [attempt EXCEPT ![r] = 0]
    /\ status' = [status EXCEPT ![r] = 0]
    /\ lastError' = [lastError EXCEPT ![r] = NoError]
    /\ delay' = [delay EXCEPT ![r] = NoDelay]
    /\ timer' = [timer EXCEPT ![r] = "none"]
    /\ controller' = [controller EXCEPT ![r] = 0]
    /\ tc' = NoteSettled(r)
    /\ UNCHANGED <<fixed, op, calls>>

\* lastError = lastError || error: the first failure is kept
StoredKeepsFirst(prev, e) == IF prev = NoError THEN e ELSE prev

\* lastError = error: the value lastError holds after the assignment
Stored(prev, e) == e

\* a sleep that gives the budget away
SleepConsumesBudget(r, e) ==
    /\ pc' = [pc EXCEPT ![r] = "backoff"]
    /\ lastError' = [lastError EXCEPT ![r] = Stored(@, e)]
    /\ status' = [status EXCEPT ![r] = 0]
    /\ delay' = [delay EXCEPT ![r] = Ms(Backoff(attempt[r]))]
    /\ timer' = [timer EXCEPT ![r] = "none"]
    /\ controller' = [controller EXCEPT ![r] = 0]
    /\ cfg' = [cfg EXCEPT ![owner[r]].maxRetries = @ - 1]
    /\ UNCHANGED <<options, client, owner, load, ops, service, activeRequests,
                   op, attempt, result, calls, tc>>

\* a sleep that gives the slot back while it lasts
SleepReleasesSlot(r, e) ==
    /\ pc' = [pc EXCEPT ![r] = "backoff"]
    /\ lastError' = [lastError EXCEPT ![r] = Stored(@, e)]
    /\ status' = [status EXCEPT ![r] = 0]
    /\ delay' = [delay EXCEPT ![r] = Ms(Backoff(attempt[r]))]
    /\ timer' = [timer EXCEPT ![r] = "none"]
    /\ controller' = [controller EXCEPT ![r] = 0]
    /\ activeRequests' = [activeRequests EXCEPT ![owner[r]] = @ - 1]
    /\ UNCHANGED <<fixed, op, attempt, result, calls, tc>>

\* the sleep entered with clearTimeout left out
SleepKeepsTimer(r, e) ==
    /\ pc' = [pc EXCEPT ![r] = "backoff"]
    /\ lastError' = [lastError EXCEPT ![r] = Stored(@, e)]
    /\ status' = [status EXCEPT ![r] = 0]
    /\ delay' = [delay EXCEPT ![r] = Ms(Backoff(attempt[r]))]
    /\ UNCHANGED <<fixed, activeRequests, op, attempt, result, calls, timer,
                   controller, tc>>

\* the catch blocks store the error and sleep Math.pow(2, attempt) * 1000;
\* clearTimeout has run by then
Sleep(r, e) ==
    /\ pc' = [pc EXCEPT ![r] = "backoff"]
    /\ lastError' = [lastError EXCEPT ![r] = Stored(@, e)]
    /\ status' = [status EXCEPT ![r] = 0]
    /\ delay' = [delay EXCEPT ![r] = Ms(Backoff(attempt[r]))]
    /\ timer' = [timer EXCEPT ![r] = "none"]
    /\ controller' = [controller EXCEPT ![r] = 0]
    /\ UNCHANGED <<fixed, activeRequests, op, attempt, result, calls, tc>>

\* an error e thrown inside the attempt reaches the catch blocks: it is
\* rethrown, or stored in lastError and followed by a sleep, or stored and
\* followed by the end of the loop and the error made from lastError
Caught(r, e) ==
    IF NeverRetried(e) THEN Settle(r, e)
    ELSE IF BudgetLeft(r) THEN Sleep(r, e)
    ELSE Settle(r, Exhausted(r, Stored(lastError[r], e)))

\* the increment placed before the try block: a throw while the body is
\* built skips the finally block
AdmitLeaks(r, buildThrows) ==
    /\ activeRequests' = [activeRequests EXCEPT ![owner[r]] = @ + 1]
    /\ IF buildThrows
       THEN /\ pc' = [pc EXCEPT ![r] = "settled"]
            /\ result' = [result EXCEPT ![r] = Err("TypeError", 0, "type")]
            /\ calls' = [calls EXCEPT ![r] = 0]
            /\ UNCHANGED <<timer, controller>>
       ELSE /\ pc' = [pc EXCEPT ![r] = "fetching"]
            /\ result' = [result EXCEPT ![r] = NoError]
            /\ calls' = [calls EXCEPT ![r] = 1]
            /\ timer' = [timer EXCEPT ![r] = "pending"]
            /\ controller' = [controller EXCEPT ![r] = attempt[r]]

\* the slot is taken and the request is built; the abort timer is set and
\* the first fetch is issued, unless building the body throws, which runs
\* the finally block at once
Admit(r, buildThrows) ==
    IF buildThrows
    THEN /\ pc' = [pc EXCEPT ![r] = "settled"]
         /\ result' = [result EXCEPT ![r] = Err("TypeError", 0, "type")]
         /\ activeRequests' =
                [activeRequests EXCEPT ![owner[r]] = Release(@ + 1)]
         /\ calls' = [calls EXCEPT ![r] = 0]
         /\ UNCHANGED <<timer, controller>>
    ELSE /\ pc' = [pc EXCEPT ![r] = "fetching"]
         /\ result' = [result EXCEPT ![r] = NoError]
         /\ activeRequests' = [activeRequests EXCEPT ![owner[r]] = @ + 1]
         /\ calls' = [calls EXCEPT ![r] = 1]
         /\ timer' = [timer EXCEPT ![r] = "pending"]
         /\ controller' = [controller EXCEPT ![r] = attempt[r]]

\* call site r may call operation name of its client
CanCall(r, name) ==
    /\ name \in ops
    /\ r <= load
    /\ client[owner[r]] = "constructed"
    /\ pc[r] \in {"idle", "settled"}
    /\ r \notin BatchMembers

\* makeRequest is entered: the gate is tested at once
Enter(r, buildThrows) ==
    /\ op' = [op EXCEPT ![r] = "makeRequest"]
    /\ IF GateClosed(owner[r])
       THEN /\ pc' = [pc EXCEPT ![r] = "waiting"]
            /\ result' = [result EXCEPT ![r] = NoError]
            /\ calls' = [calls EXCEPT ![r] = 0]
            /\ UNCHANGED <<activeRequests, timer, controller>>
       ELSE Admit(r, buildThrows)
    /\ tc' = Forget
    /\ UNCHANGED <<fixed, attempt, status, lastError, delay>>

\* a wrapper throws TranslatePlusValidationError before it calls makeRequest
Reject(r, name, msg) ==
    /\ op' = [op EXCEPT ![r] = name]
    /\ pc' = [pc EXCEPT ![r] = "settled"]
    /\ result' = [result EXCEPT ![r] = Err("Validation", 0, msg)]
    /\ calls' = [calls EXCEPT ![r] = 0]
    /\ tc' = Forget
    /\ UNCHANGED <<fixed, activeRequests, attempt, status, lastError, delay,
                   timer, controller>>

\* ------------------------------------------------- actions of makeRequest
\* a call site calls an operation that goes straight to makeRequest
\* (translate, translateHTML, ..., deleteI18nJob)
makeRequest(r, buildThrows) ==
    /\ CanCall(r, "makeRequest")
    /\ Enter(r, buildThrows)

\* the 10 ms timer of a waiting call fires and the gate is tested again;
\* the body of a translate call of translateConcurrent is a string and
\* building it cannot throw
Poll(r, buildThrows) ==
    /\ pc[r] = "waiting"
    /\ buildThrows => r \notin BatchMembers
    /\ IF GateClosed(owner[r])
       THEN UNCHANGED <<pc, result, calls, activeRequests, timer,
                        controller>>
       ELSE Admit(r, buildThrows)
    /\ UNCHANGED <<fixed, op, attempt, status, lastError, delay, tc>>

\* fetch resolves with a response of status s and Retry-After header h:
\* clearTimeout runs; a 429 with budget left sleeps at once and continues
FetchResolves(r, s, h) ==
    /\ pc[r] = "fetching"
    /\ h \in service
    /\ timer' = [timer EXCEPT ![r] = "none"]
    /\ controller' = [controller EXCEPT ![r] = 0]
    /\ IF s = 429 /\ BudgetLeft(r)
       THEN /\ pc' = [pc EXCEPT ![r] = "backoff"]
            /\ delay' = [delay EXCEPT ![r] = RateLimitDelay(h, attempt[r])]
            /\ UNCHANGED status
       ELSE /\ pc' = [pc EXCEPT ![r] = IF s >= 400 THEN "errorBody" ELSE "body"]
            /\ status' = [status EXCEPT ![r] = s]
            /\ UNCHANGED delay
    /\ UNCHANGED <<fixed, activeRequests, op, attempt, lastError, result, calls, tc>>

\* fetch rejects with a network error
FetchRejects(r) ==
    /\ pc[r] = "fetching"
    /\ Caught(r, Err("FetchError", 0, "network"))

\* the timer of the attempt aborts the fetch: AbortError becomes
\* TranslatePlusAPIError("Request timeout after ...")
FetchAborts(r) ==
    /\ pc[r] = "fetching"
    /\ timer[r] = "pending"
    /\ controller[r] = attempt[r]
    /\ Caught(r, Err("API", 0, "timeout"))

\* response.json().catch(() => ({})) of an error response completes
ErrorBodyRead(r, body) ==
    /\ pc[r] = "errorBody"
    /\ IF status[r] = 429
       THEN Caught(r, Err("RateLimit", 429, "ratelimit"))
       ELSE Caught(r, StatusError(status[r], body))

\* response.json() of a response with status < 400 completes
BodyRead(r, body) ==
    /\ pc[r] = "body"
    /\ IF ParseJson(body).ok
       THEN Settle(r, Outcome("ok", status[r], "none", ParseJson(body).value))
       ELSE Caught(r, Err("SyntaxError", 0, "syntax"))

\* the loop started again from attempt 0 after a sleep
BackoffEndsRestarts(r) ==
    /\ pc[r] = "backoff"
    /\ pc' = [pc EXCEPT ![r] = "fetching"]
    /\ attempt' = [attempt EXCEPT ![r] = 0]
    /\ calls' = [calls EXCEPT ![r] = calls[r] + 1]
    /\ timer' = [timer EXCEPT ![r] = "pending"]
    /\ controller' = [controller EXCEPT ![r] = 0]
    /\ UNCHANGED <<fixed, activeRequests, op, status, lastError, result, delay,
                   tc>>

\* the backoff sleep ends: continue, attempt++, the abort timer is set and
\* the next fetch is issued
BackoffEnds(r) ==
    /\ pc[r] = "backoff"
    /\ pc' = [pc EXCEPT ![r] = "fetching"]
    /\ attempt' = [attempt EXCEPT ![r] = attempt[r] + 1]
    /\ calls' = [calls EXCEPT ![r] = calls[r] + 1]
    /\ timer' = [timer EXCEPT ![r] = "pending"]
    /\ controller' = [controller EXCEPT ![r] = attempt[r] + 1]
    /\ UNCHANGED <<fixed, activeRequests, op, status, lastError, result, delay,
                   tc>>

\* -------------------------------------------- actions of downloadI18nFile
\* the outcome of a call that never entered makeRequest
Finish(r, e) ==
    /\ pc' = [pc EXCEPT ![r] = "settled"]
    /\ result' = [result EXCEPT ![r] = e]
    /\ status' = [status EXCEPT ![r] = 0]
    /\ UNCHANGED <<fixed, activeRequests, op, attempt, lastError, calls, delay,
                   timer, controller, tc>>

downloadI18nFile(r) ==
    /\ CanCall(r, "downloadI18nFile")
    /\ op' = [op EXCEPT ![r] = "downloadI18nFile"]
    /\ pc' = [pc EXCEPT ![r] = "dl_fetching"]
    /\ result' = [result EXCEPT ![r] = NoError]
    /\ calls' = [calls EXCEPT ![r] = 1]
    /\ tc' = Forget
    /\ UNCHANGED <<fixed, activeRequests, attempt, status, lastError, delay,
                   timer, controller>>

DownloadResolves(r, s) ==
    /\ pc[r] = "dl_fetching"
    /\ pc' = [pc EXCEPT ![r] = IF s >= 400 THEN "dl_errorBody" ELSE "dl_body"]
    /\ status' = [status EXCEPT ![r] = s]
    /\ UNCHANGED <<fixed, activeRequests, op, attempt, lastError, result, calls,
                   delay, timer, controller, tc>>

DownloadRejects(r) ==
    /\ pc[r] = "dl_fetching"
    /\ Finish(r, Err("FetchError", 0, "network"))

\* the error thrown by downloadI18nFile for a response with status >= 400
DownloadError(s, body) ==
    IF ErrorData(body) = "null" THEN Err("TypeError", 0, "type")
    ELSE Err("API", s, "status")

DownloadErrorBodyRead(r, body) ==
    /\ pc[r] = "dl_errorBody"
    /\ Finish(r, DownloadError(status[r], body))

\* response.arrayBuffer() completes, or the body stream fails
DownloadBodyRead(r, ok) ==
    /\ pc[r] = "dl_body"
    /\ Finish(r, IF ok THEN Outcome("ok", status[r], "none", "buffer")
                 ELSE Err("FetchError", 0, "network"))

\* ------------------------------------------------ wrappers that validate
\* the limit tested one too high
BatchInvalidOffByOne(n) == n = 0 \/ n > MaxBatchTexts + 1

\* !options.texts || options.texts.length === 0, options.texts.length > 100
BatchInvalid(n) == n = 0 \/ n > MaxBatchTexts

\* translateBatch with n texts
translateBatch(r, n, buildThrows) ==
    /\ CanCall(r, "translateBatch")
    /\ IF BatchInvalid(n)
       THEN Reject(r, "translateBatch", IF n = 0 THEN "empty" ELSE "maximum")
       ELSE Enter(r, buildThrows)

\* the format compared without regard to case
FormatInvalidCaseless(fmt) == fmt \notin {"srt", "vtt", "SRT"}

\* options.format !== 'srt' && options.format !== 'vtt'
FormatInvalid(fmt) == fmt # "srt" /\ fmt # "vtt"

translateSubtitles(r, fmt, buildThrows) ==
    /\ CanCall(r, "translateSubtitles")
    /\ IF FormatInvalid(fmt)
       THEN Reject(r, "translateSubtitles", "format")
       ELSE Enter(r, buildThrows)

\* the file is not looked for
FileMissingIgnored(exists) == FALSE

\* !fs.existsSync(filePath)
FileMissing(exists) == ~exists

\* createI18nJob on a path that names a file or not; buildThrows also
\* stands for the TypeError of target_languages.join, thrown before
\* makeRequest with the same outcome
createI18nJob(r, exists, buildThrows) ==
    /\ CanCall(r, "createI18nJob")
    /\ IF FileMissing(exists)
       THEN Reject(r, "createI18nJob", "file")
       ELSE Enter(r, buildThrows)

\* ---------------------------------------------------- translateConcurrent
\* the promise of translate(texts[i]) without the catch handler
CaptureNothing(e) ==
    [state |-> IF e.class = "ok" THEN "fulfilled" ELSE "rejected", value |-> e]

\* .catch((error) => ({ error: error.message })): a result passes through,
\* an error becomes a fulfilled error indicator that keeps the message only
Capture(e) ==
    [state |-> "fulfilled",
     value |-> IF e.class = "ok" THEN e
               ELSE Outcome("indicator", 0, e.msg, "none")]

\* promises[i]
Slot(i) ==
    IF pc[i] = "settled" THEN Capture(result[i])
    ELSE [state |-> "pending", value |-> NoError]

\* the values in the order the promises settled
GatherInCompletionOrder ==
    [k \in 1..Len(tc.order) |-> Slot(tc.order[k]).value]

\* the value of Promise.all(promises): the values in the order of promises
Gather == [i \in 1..tc.n |-> Slot(i).value]

\* translateConcurrent on n texts: texts.map calls translate for each text
\* in turn, and each call runs up to its first await, so the gate is
\* tested n times in a row; call site i carries texts[i]
translateConcurrent(n) ==
    /\ "translateConcurrent" \in ops
    /\ n <= load
    /\ tc.phase # "running"
    /\ client[owner[1]] = "constructed"
    /\ \A i \in 1..n : CanCall(i, "translateConcurrent") /\ owner[i] = owner[1]
    /\ LET x == owner[1]
           Admitted(i) == ~GateClosedAt(x, activeRequests[x] + i - 1)
       IN  /\ pc' = [r \in Requests |->
                        IF r > n THEN pc[r]
                        ELSE IF Admitted(r) THEN "fetching" ELSE "waiting"]
           /\ calls' = [r \in Requests |->
                        IF r > n THEN calls[r]
                        ELSE IF Admitted(r) THEN 1 ELSE 0]
           /\ timer' = [r \in Requests |->
                        IF r > n THEN timer[r]
                        ELSE IF Admitted(r) THEN "pending" ELSE "none"]
           /\ controller' = [r \in Requests |->
                        IF r > n THEN controller[r]
                        ELSE IF Admitted(r) THEN attempt[r] ELSE 0]
           /\ activeRequests' =
                [activeRequests EXCEPT
                    ![x] = @ + Cardinality({i \in 1..n : Admitted(i)})]
    /\ op' = [r \in Requests |-> IF r > n THEN op[r] ELSE "makeRequest"]
    /\ result' = [r \in Requests |-> IF r > n THEN result[r] ELSE NoError]
    /\ tc' = [phase |-> "running", n |-> n, order |-> <<>>, out |-> <<>>]
    /\ UNCHANGED <<fixed, attempt, status, lastError, delay>>

\* Promise.all settles: it rejects as soon as one promise has rejected and
\* resolves when every promise is fulfilled
ConcurrentSettles ==
    /\ tc.phase = "running"
    /\ \/ \E i \in 1..tc.n : Slot(i).state = "rejected"
       \/ \A i \in 1..tc.n : Slot(i).state = "fulfilled"
    /\ tc' = IF \E i \in 1..tc.n : Slot(i).state = "rejected"
             THEN [tc EXCEPT !.phase = "rejected"]
             ELSE [tc EXCEPT !.phase = "resolved", !.out = Gather]
    /\ UNCHANGED <<fixed, activeRequests, pc, op, attempt, status, lastError,
                   result, calls, delay, timer, controller>>

\* a call site calls an operation that ends in makeRequest
Enters ==
    \/ \E r \in Requests, b \in BOOLEAN : makeRequest(r, b)
    \/ \E r \in Requests, n \in BatchLengths, b \in BOOLEAN :
            translateBatch(r, n, b)
    \/ \E r \in Requests, fmt \in Formats, b \in BOOLEAN :
            translateSubtitles(r, fmt, b)
    \/ \E r \in Requests, e \in BOOLEAN, b \in BOOLEAN : createI18nJob(r, e, b)
    \/ \E n \in 0..NReq : translateConcurrent(n)

Next ==
    \/ \E x \in Clients : Construct(x)
    \/ \E r \in Requests, b \in BOOLEAN : makeRequest(r, b)
    \/ \E r \in Requests, n \in BatchLengths, b \in BOOLEAN :
            translateBatch(r, n, b)
    \/ \E r \in Requests, fmt \in Formats, b \in BOOLEAN :
            translateSubtitles(r, fmt, b)
    \/ \E r \in Requests, e \in BOOLEAN, b \in BOOLEAN : createI18nJob(r, e, b)
    \/ \E n \in 0..NReq : translateConcurrent(n)
    \/ ConcurrentSettles
    \/ \E r \in Requests, b \in BOOLEAN : Poll(r, b)
    \/ \E r \in Requests, s \in Statuses, h \in RetryAfters :
            FetchResolves(r, s, h)
    \/ \E r \in Requests : FetchRejects(r)
    \/ \E r \in Requests : FetchAborts(r)
    \/ \E r \in Requests, body \in Bodies : ErrorBodyRead(r, body)
    \/ \E r \in Requests, body \in Bodies : BodyRead(r, body)
    \/ \E r \in Requests : BackoffEnds(r)
    \/ \E r \in Requests : downloadI18nFile(r)
    \/ \E r \in Requests, s \in Statuses : DownloadResolves(r, s)
    \/ \E r \in Requests : DownloadRejects(r)
    \/ \E r \in Requests, body \in Bodies : DownloadErrorBodyRead(r, body)
    \/ \E r \in Requests, ok \in BOOLEAN : DownloadBodyRead(r, ok)

Spec == Init /\ [][Next]_vars

\* the client's own steps are scheduled whenever they stay possible: timers
\* fire, fetch and body reads complete, Promise.all settles; calls by the
\* call sites are not forced
LiveSpec ==
    /\ Spec
    /\ WF_vars(ConcurrentSettles)
    /\ \A r \in Requests :
        /\ WF_vars(\E b \in BOOLEAN : Poll(r, b))
        /\ WF_vars(\E s \in Statuses, h \in RetryAfters : FetchResolves(r, s, h))
        /\ WF_vars(\E body \in Bodies : ErrorBodyRead(r, body))
        /\ WF_vars(\E body \in Bodies : BodyRead(r, body))
        /\ WF_vars(BackoffEnds(r))
        /\ WF_vars(\E s \in Statuses : DownloadResolves(r, s))
        /\ WF_vars(\E body \in Bodies : DownloadErrorBodyRead(r, body))
        /\ WF_vars(\E ok \in BOOLEAN : DownloadBodyRead(r, ok))

\* LiveSpec for call sites that eventually stop issuing calls through
\* makeRequest: under it every waiting call is admitted
QuiescentSpec == LiveSpec /\ <>[][~Enters]_vars

\* ------------------------------------------------------------------ claims
Settled(r) == pc[r] = "settled"

\* C1: the number of network calls in flight from one client never exceeds
\* maxConcurrent, for any mix of operations, downloadI18nFile included
C1_InFlightWithinMaxConcurrent ==
    \A x \in Clients :
        client[x] = "constructed"
        => Cardinality(InFlight(x)) <= cfg[x].maxConcurrent

C3_ZeroWhenAllSettled ==
    (\A r \in Requests : pc[r] \in {"idle", "settled"})
    => \A x \in Clients : activeRequests[x] = 0

\* every call site has issued a call through makeRequest, all have settled,
\* one with an error after a retry and one successfully
C3_Witness ==
    /\ load = NReq
    /\ \A r \in Requests : owner[r] = 1
    /\ \A r \in Requests : Settled(r) /\ op[r] = "makeRequest"
    /\ \E r \in Requests : result[r].class = "API" /\ calls[r] = cfg[1].maxRetries + 1
    /\ \E r \in Requests : result[r].class = "ok"

\* C4: every call waiting at the admission gate is eventually admitted
C4_EveryWaiterAdmitted ==
    \A r \in Requests : (pc[r] = "waiting") ~> (pc[r] # "waiting")

\* C5: a response with status 401 or 403 makes any operation fail with an
\* authentication error at once: no further network call, no backoff, and
\* exactly one network call when it is the first response
C5_AuthenticationNotRetried ==
    [][\A r \in Requests :
        (/\ pc[r] \in {"errorBody", "dl_errorBody"}
         /\ status[r] \in {401, 403}
         /\ pc'[r] # pc[r])
        => /\ Settled(r)'
           /\ result'[r].class = "Authentication"
           /\ calls'[r] = calls[r]
           /\ (attempt[r] = 0 => calls'[r] = 1)]_vars

\* C6: a response with status 402 makes any operation fail with an
\* insufficient-credits error at once: no further network call, no backoff
C6_InsufficientCreditsNotRetried ==
    [][\A r \in Requests :
        (/\ pc[r] \in {"errorBody", "dl_errorBody"}
         /\ status[r] = 402
         /\ pc'[r] # pc[r])
        => /\ Settled(r)'
           /\ result'[r].class = "InsufficientCredits"
           /\ calls'[r] = calls[r]]_vars

\* C7: when every attempt is answered 429 (lastError is never set), the
\* call fails with a rate-limit error after exactly maxRetries+1 network calls
C7_RateLimitErrorAfterBudget ==
    [][\A r \in Requests :
        (/\ pc[r] = "errorBody"
         /\ status[r] = 429
         /\ lastError[r] = NoError
         /\ pc'[r] # pc[r])
        => /\ Settled(r)'
           /\ result'[r].class = "RateLimit"
           /\ calls'[r] = cfg[owner[r]].maxRetries + 1]_vars

\* C8: a response with any other error status (here 500) fails the call
\* with a generic API error at that attempt: no retry, no backoff
C8_OtherStatusNotRetried ==
    [][\A r \in Requests :
        (/\ pc[r] = "errorBody"
         /\ status[r] = 500
         /\ pc'[r] # pc[r])
        => /\ Settled(r)'
           /\ result'[r].class = "API"
           /\ result'[r].statusCode = 500
           /\ calls'[r] = calls[r]
           /\ (attempt[r] = 0 => calls'[r] = 1)]_vars

\* C9: with maxRetries n given at construction, a transient failure
\* (network error or timeout) of attempt k is retried when k < n and ends
\* the call after exactly n+1 network calls when k = n
C9_AttemptsAreMaxRetriesPlusOne ==
    [][\A r \in Requests :
        (FetchRejects(r) \/ FetchAborts(r))
        => IF attempt[r] < options[owner[r]].maxRetries
           THEN pc'[r] = "backoff"
           ELSE Settled(r)' /\ calls'[r] = options[owner[r]].maxRetries + 1]_vars

\* C10: the first response with status < 400 ends the retry sequence: the
\* decoded body is returned and no further network call or backoff follows
C10_SuccessEndsRetrySequence ==
    [][\A r \in Requests : \A body \in Bodies :
        BodyRead(r, body)
        => /\ Settled(r)'
           /\ result'[r].class = "ok"
           /\ calls'[r] = calls[r]]_vars

\* C11: every error raised because of an HTTP error status, the one raised
\* after the retries are exhausted on such responses included, carries that
\* status in statusCode
C11_StatusErrorsCarryStatus ==
    \A r \in Requests :
        (Settled(r) /\ result[r].msg \in {"status", "ratelimit"})
        => result[r].statusCode >= 400

\* C12: translateBatch with no texts or with more than 100 texts fails
\* with a validation error at once: no network call, no wait at the gate,
\* activeRequests unchanged
C12_BatchValidatedBeforeGate ==
    [][\A r \in Requests, n \in BatchLengths, b \in BOOLEAN :
        (translateBatch(r, n, b) /\ (n = 0 \/ n > 100))
        => /\ Settled(r)'
           /\ result'[r].class = "Validation"
           /\ calls' = [calls EXCEPT ![r] = 0]
           /\ activeRequests' = activeRequests]_vars

\* a batch of 101 texts was refused while the gate of its client was closed
\* by a call in flight
C12_Witness ==
    \E r \in Requests :
        /\ Settled(r)
        /\ op[r] = "translateBatch"
        /\ result[r] = Err("Validation", 0, "maximum")
        /\ activeRequests[owner[r]] >= cfg[owner[r]].maxConcurrent
        /\ \E q \in Requests : pc[q] = "fetching" /\ owner[q] = owner[r]

\* C13: translateSubtitles with a format other than "srt" or "vtt" fails
\* with a validation error at once: no network call, activeRequests
\* unchanged
C13_FormatValidatedBeforeGate ==
    [][\A r \in Requests, fmt \in Formats, b \in BOOLEAN :
        (translateSubtitles(r, fmt, b) /\ fmt \notin {"srt", "vtt"})
        => /\ Settled(r)'
           /\ result'[r].class = "Validation"
           /\ calls' = [calls EXCEPT ![r] = 0]
           /\ activeRequests' = activeRequests]_vars

\* a subtitle translation was refused for its format while another call of
\* the same client was in its backoff sleep
C13_Witness ==
    \E r \in Requests :
        /\ Settled(r)
        /\ op[r] = "translateSubtitles"
        /\ result[r] = Err("Validation", 0, "format")
        /\ \E q \in Requests : pc[q] = "backoff" /\ owner[q] = owner[r]

\* C14: with an empty or absent apiKey construction fails before any side
\* effect: no instance, no configuration field set, no call, no network call
C14_NoClientWithoutApiKey ==
    \A x \in Clients :
        (client[x] # "absent" /\ options[x].apiKey \in {"", "absent"})
        => /\ client[x] \in {"new", "failed"}
           /\ cfg[x] = Unset
           /\ activeRequests[x] = 0
           /\ \A r \in Requests :
                owner[r] = x => pc[r] = "idle" /\ calls[r] = 0

\* the constructor has thrown for an empty key
C14_Witness ==
    \E x \in Clients : client[x] = "failed" /\ options[x].apiKey = ""

\* C15: createI18nJob on a path that names no file fails with a validation
\* error before any network I/O, activeRequests unchanged
C15_FileCheckedBeforeGate ==
    [][\A r \in Requests, b \in BOOLEAN :
        createI18nJob(r, FALSE, b)
        => /\ Settled(r)'
           /\ result'[r].class = "Validation"
           /\ calls' = [calls EXCEPT ![r] = 0]
           /\ activeRequests' = activeRequests]_vars

\* a job for a missing file was refused while a call of the same client
\* held the only slot
C15_Witness ==
    \E r \in Requests :
        /\ Settled(r)
        /\ op[r] = "createI18nJob"
        /\ result[r] = Err("Validation", 0, "file")
        /\ activeRequests[owner[r]] = 1
        /\ cfg[owner[r]].maxConcurrent = 1

\* C16: translateConcurrent returns an array as long as texts whose slot i
\* holds the outcome of the call for texts[i], whatever the order in which
\* the calls completed
C16_ResultsInInputOrder ==
    tc.phase = "resolved"
    => /\ Len(tc.out) = tc.n
       /\ \A i \in 1..tc.n :
            /\ tc.out[i].msg = result[i].msg
            /\ tc.out[i].value = result[i].value

\* the call for the second text completed first and the two outcomes differ
C16_Witness ==
    /\ tc.phase = "resolved"
    /\ tc.n >= 2
    /\ tc.order[1] = 2
    /\ tc.out[1] # tc.out[2]

\* C17: translateConcurrent never rejects because an item failed: a failed
\* slot holds an error indicator, a successful slot holds the result, and
\* a failure does not keep the other items from completing
C17_ItemFailuresCaptured ==
    /\ tc.phase # "rejected"
    /\ tc.phase = "resolved"
       => \A i \in 1..tc.n :
            IF result[i].class = "ok"
            THEN tc.out[i] = result[i]
            ELSE tc.out[i].class = "indicator"

\* an item failed first, another item succeeded after it, and the array
\* holds the indicator and the result
C17_Witness ==
    /\ tc.phase = "resolved"
    /\ \E i, j \in 1..tc.n :
        /\ tc.order[1] = i
        /\ tc.out[i].class = "indicator"
        /\ tc.out[j].class = "ok"

\* C18: two client instances are independent: a step of a call of one
\* instance leaves the counter and the configuration of the other alone,
\* and a call is left waiting at the gate only when the gate of its own
\* instance is closed, however saturated the other instance is
C18_InstancesIndependent ==
    [][\A r \in Requests :
        pc'[r] # pc[r]
        => /\ \A x \in Clients \ {owner[r]} :
                /\ activeRequests'[x] = activeRequests[x]
                /\ cfg'[x] = cfg[x]
           /\ pc'[r] = "waiting"
              => activeRequests'[owner[r]] >= cfg[owner[r]].maxConcurrent]_vars

\* the first instance is saturated while a call of the second instance,
\* configured differently, was admitted and is in flight
C18_Witness ==
    /\ owner[1] = 1 /\ owner[2] = 2
    /\ cfg[1] # cfg[2]
    /\ activeRequests[1] = cfg[1].maxConcurrent
    /\ pc[1] = "backoff"
    /\ pc[2] = "fetching"
    /\ activeRequests[2] = 1

\* C19: once an instance is constructed no operation changes its
\* configuration (apiKey, baseUrl, timeout, maxRetries, maxConcurrent)
C19_ConfigurationNeverChanges ==
    [][\A x \in Clients :
        client[x] = "constructed"
        => cfg'[x] = cfg[x] /\ client'[x] = "constructed"]_vars

\* a call has gone through a backoff and settled, its counter was taken
\* and given back, and the configuration is the constructor's
C19_Witness ==
    \E r \in Requests :
        /\ Settled(r)
        /\ calls[r] >= 2
        /\ activeRequests[owner[r]] = 0
        /\ cfg[owner[r]] = Constructor(options[owner[r]])

\* C20: activeRequests of an instance is the number of its makeRequest
\* calls that were admitted and have not settled: attempts, body reads and
\* backoff sleeps all hold the slot, and a call that threw while its body
\* was built has given it back
C20_CounterCountsAdmittedCalls ==
    \A x \in Clients :
        activeRequests[x] =
            Cardinality({r \in Requests :
                /\ owner[r] = x
                /\ pc[r] \in {"fetching", "errorBody", "body", "backoff"}})

\* one call settled by a throw while its body was built, another call of
\* the same instance sleeps between attempts and holds the only slot taken
C20_Witness ==
    \E r, q \in Requests :
        /\ owner[r] = owner[q]
        /\ Settled(r) /\ op[r] = "makeRequest"
        /\ result[r] = Err("TypeError", 0, "type") /\ calls[r] = 0
        /\ pc[q] = "backoff"
        /\ activeRequests[owner[q]] = 1

\* C21: a 429 response at attempt k < maxRetries whose Retry-After header
\* parses to s seconds makes the call wait min(s * 1000, 2^k * 1000) ms, once,
\* before attempt k + 1; a 429 response at attempt k = maxRetries starts no
\* wait and the call fails as soon as the payload is read
C21_RateLimitWaitIsCapped ==
    [][\A r \in Requests :
        /\ \A h \in {"0", "1", "60"} :
            FetchResolves(r, 429, h)
            => LET s == CASE h = "0" -> 0 [] h = "1" -> 1 [] h = "60" -> 60
                   k == attempt[r]
               IN  IF k < cfg[owner[r]].maxRetries
                   THEN /\ pc'[r] = "backoff"
                        /\ delay'[r] = Ms(IF s * 1000 <= 2^k * 1000
                                          THEN s * 1000 ELSE 2^k * 1000)
                   ELSE /\ pc'[r] = "errorBody"
                        /\ delay'[r] = delay[r]
        /\ (pc[r] = "backoff" /\ pc'[r] # "backoff")
            => /\ pc'[r] = "fetching"
               /\ attempt'[r] = attempt[r] + 1
               /\ delay'[r] = delay[r]
        /\ (pc[r] = "errorBody" /\ status[r] = 429 /\ pc'[r] # "errorBody")
            => Settled(r)']_vars

\* the call sleeps 1000 ms after the 429 response to its second attempt:
\* Retry-After: 1 capped the backoff of 2000 ms
C21_Witness ==
    \E r \in Requests :
        /\ pc[r] = "backoff"
        /\ attempt[r] = 1
        /\ lastError[r] = NoError
        /\ delay[r] = Ms(1000)

\* C22: a 429 response at attempt k < maxRetries whose Retry-After header
\* is absent or is not a number of seconds (an HTTP date) makes the call
\* wait min(2000, 2^k * 1000) ms before attempt k + 1
C22_RetryAfterDefaultsToTwo ==
    [][\A r \in Requests :
        \A h \in {"absent", "Wed, 21 Oct 2015 07:28:00 GMT"} :
            (FetchResolves(r, 429, h) /\ attempt[r] < cfg[owner[r]].maxRetries)
            => /\ pc'[r] = "backoff"
               /\ delay'[r] = Ms(IF 2000 <= 2^attempt[r] * 1000
                                 THEN 2000 ELSE 2^attempt[r] * 1000)]_vars

\* C23: when every attempt is answered 429 with Retry-After: 60, each
\* delay between two network calls is longer than the delay before it, for
\* every maxRetries
C23_DelaysStrictlyIncreasing ==
    [][\A r \in Requests :
        (/\ service = {"60"}
         /\ FetchResolves(r, 429, "60")
         /\ lastError[r] = NoError
         /\ 1 <= attempt[r] /\ attempt[r] < cfg[owner[r]].maxRetries)
        => delay'[r].ms > delay[r].ms]_vars

\* C23 as amended: when every attempt is answered 429 with Retry-After: 60,
\* the delays are strictly increasing for every maxRetries up to 7; for a
\* larger maxRetries they are strictly increasing up to the delay after
\* attempt 6 (1000, 2000, ..., 32000, 60000 ms) and stay 60000 ms after it
C23_DelaysIncreaseUpToRetryAfter ==
    [][\A r \in Requests :
        (/\ service = {"60"}
         /\ FetchResolves(r, 429, "60")
         /\ lastError[r] = NoError
         /\ 1 <= attempt[r] /\ attempt[r] < cfg[owner[r]].maxRetries)
        => IF cfg[owner[r]].maxRetries <= 7 \/ attempt[r] <= 6
           THEN delay'[r].ms > delay[r].ms
           ELSE delay[r] = Ms(60000) /\ delay'[r] = Ms(60000)]_vars

\* with maxRetries: 7 the call sleeps 60000 ms after seven 429 responses,
\* the last of seven growing delays
C23_Witness ==
    \E r \in Requests :
        /\ service = {"60"}
        /\ cfg[owner[r]].maxRetries = 7
        /\ pc[r] = "backoff"
        /\ attempt[r] = 6
        /\ lastError[r] = NoError
        /\ delay[r] = Ms(60000)

\* C24: a network error or a timeout at attempt k < maxRetries makes the
\* call wait 2^k * 1000 ms, once, and then make attempt k + 1; at attempt
\* k = maxRetries the call fails without any backoff
C24_TransientBackoff ==
    [][\A r \in Requests :
        /\ (FetchRejects(r) \/ FetchAborts(r))
            => IF attempt[r] < cfg[owner[r]].maxRetries
               THEN /\ pc'[r] = "backoff"
                    /\ delay'[r] = Ms(2^attempt[r] * 1000)
                    /\ calls'[r] = calls[r]
               ELSE /\ Settled(r)'
                    /\ calls'[r] = calls[r]
        /\ (pc[r] = "backoff" /\ lastError[r].msg \in {"network", "timeout"}
            /\ pc'[r] # "backoff")
            => /\ pc'[r] = "fetching"
               /\ attempt'[r] = attempt[r] + 1
               /\ calls'[r] = calls[r] + 1
               /\ delay'[r] = delay[r]]_vars

\* the third attempt timed out after a network error and the call sleeps
\* 4000 ms
C24_Witness ==
    \E r \in Requests :
        /\ pc[r] = "backoff"
        /\ attempt[r] = 2
        /\ lastError[r] = Err("API", 0, "timeout")
        /\ delay[r] = Ms(4000)

\* C25: when a network error or a timeout ends the last attempt, the call
\* fails with a generic API error whose message states the number of
\* attempts made, maxRetries + 1, and describes the failure of the last
\* attempt, whatever the earlier attempts failed with
C25_MessageStatesAttemptCount ==
    [][\A r \in Requests :
        /\ (FetchRejects(r) /\ attempt[r] = cfg[owner[r]].maxRetries)
            => /\ result'[r].class = "API"
               /\ result'[r].retries = cfg[owner[r]].maxRetries + 1
               /\ result'[r].msg = "network"
        /\ (FetchAborts(r) /\ attempt[r] = cfg[owner[r]].maxRetries)
            => /\ result'[r].class = "API"
               /\ result'[r].retries = cfg[owner[r]].maxRetries + 1
               /\ result'[r].msg = "timeout"]_vars

\* C25 as amended: when a network error or a timeout ends the last attempt,
\* the call fails with a generic API error whose message states the number
\* of retries, maxRetries, and describes the failure of the last attempt,
\* whatever the earlier attempts failed with
C25_MessageStatesRetryCount ==
    [][\A r \in Requests :
        /\ (FetchRejects(r) /\ attempt[r] = cfg[owner[r]].maxRetries)
            => /\ result'[r].class = "API"
               /\ result'[r].statusCode = 0
               /\ result'[r].retries = cfg[owner[r]].maxRetries
               /\ result'[r].msg = "network"
        /\ (FetchAborts(r) /\ attempt[r] = cfg[owner[r]].maxRetries)
            => /\ result'[r].class = "API"
               /\ result'[r].statusCode = 0
               /\ result'[r].retries = cfg[owner[r]].maxRetries
               /\ result'[r].msg = "timeout"]_vars

\* the last attempt is in flight after an earlier attempt failed with a
\* network error; when it times out the message must say so
C25_Witness ==
    \E r \in Requests :
        /\ pc[r] = "fetching"
        /\ attempt[r] = cfg[owner[r]].maxRetries
        /\ lastError[r].msg = "network"
        /\ timer[r] = "pending"

\* C26: every attempt is bounded by the timeout from the moment its network
\* call is issued until its response body has been decoded: as long as the
\* attempt awaits the response or its body, the abort timer is pending
C26_AttemptBoundedByTimeout ==
    \A r \in Requests :
        pc[r] \in {"fetching", "errorBody", "body"} => timer[r] = "pending"

\* C27: reading the payload of an error response never raises: for every
\* error status and every body (an object with or without detail, text
\* that is not JSON, the JSON value null) the error raised is the one made
\* from the status, and the body never makes the call retry or fail with
\* another kind of error
C27_ErrorPayloadNeverRaises ==
    [][\A r \in Requests, body \in Bodies :
        ErrorBodyRead(r, body)
        => LET raised == IF Settled(r)' THEN result'[r] ELSE lastError'[r]
           IN  /\ raised.msg \in {"status", "ratelimit"}
               /\ status[r] \in {401, 402, 403} => Settled(r)']_vars


\* the makeRequest calls of instance x that sleep between two attempts
Sleeping(x) == {r \in Requests : owner[r] = x /\ pc[r] = "backoff"}

\* C28: a call keeps its slot through every backoff sleep: while
\* maxConcurrent calls of one client sleep in backoff, the counter is at
\* the ceiling and no other makeRequest call of that client has been
\* admitted or has a network call or a response in progress
C28_SlotHeldThroughBackoff ==
    \A x \in Clients :
        (client[x] = "constructed"
            /\ Cardinality(Sleeping(x)) = cfg[x].maxConcurrent)
        => /\ activeRequests[x] = cfg[x].maxConcurrent
           /\ \A r \in Requests \ Sleeping(x) :
                owner[r] = x => pc[r] \notin {"fetching", "errorBody", "body"}

\* every slot of a client is held by a sleeping call while another call of
\* the same client waits at the gate
C28_Witness ==
    \E x \in Clients, r \in Requests :
        /\ client[x] = "constructed"
        /\ Cardinality(Sleeping(x)) = cfg[x].maxConcurrent
        /\ owner[r] = x
        /\ pc[r] = "waiting"


\* C29: a response with status < 400 whose body does not decode as JSON is
\* handled as a transient failure: before the last attempt the call sleeps
\* 2^attempt * 1000 ms and sends the request again, and at the last attempt,
\* after maxRetries + 1 network calls, it rejects with the generic API error
C29_UndecodableSuccessIsTransient ==
    [][\A r \in Requests :
        /\ BodyRead(r, "invalid")
           => IF attempt[r] < cfg[owner[r]].maxRetries
              THEN /\ pc'[r] = "backoff"
                   /\ lastError'[r].class = "SyntaxError"
                   /\ delay'[r] = Ms(2 ^ attempt[r] * 1000)
                   /\ calls'[r] = calls[r]
              ELSE /\ Settled(r)'
                   /\ result'[r].class = "API"
                   /\ result'[r].statusCode = 0
                   /\ calls'[r] = cfg[owner[r]].maxRetries + 1
        /\ (BackoffEnds(r) /\ lastError[r].class = "SyntaxError")
           => /\ pc'[r] = "fetching"
              /\ attempt'[r] = attempt[r] + 1
              /\ calls'[r] = calls[r] + 1]_vars

\* a call whose last response was a success with an undecodable body has
\* been rejected after maxRetries + 1 network calls
C29_Witness ==
    \E r \in Requests :
        /\ Settled(r)
        /\ result[r].class = "API"
        /\ result[r].msg = "syntax"
        /\ calls[r] = cfg[owner[r]].maxRetries + 1
        /\ calls[r] >= 3


\* the positions of a makeRequest call between its admission and its end
Attempting(p) == p \in {"fetching", "errorBody", "body", "backoff"}

\* C30: one makeRequest call never issues more than maxRetries + 1 network
\* calls, whatever the outcomes of its attempts: every outcome draws on the
\* one attempt counter, the calls issued are always attempt + 1, and no
\* step of the call takes the counter or the number of calls back
C30_OneAttemptBudget ==
    [][\A r \in Requests :
        client[owner[r]] = "constructed"
        => /\ calls'[r] <= cfg[owner[r]].maxRetries + 1
           /\ Attempting(pc'[r])
              => /\ attempt'[r] <= cfg[owner[r]].maxRetries
                 /\ calls'[r] = attempt'[r] + 1
           /\ (Attempting(pc[r]) /\ Attempting(pc'[r]))
              => /\ attempt'[r] >= attempt[r]
                 /\ calls'[r] >= calls[r]]_vars

\* the last attempt of a call is answered 429 after an earlier attempt
\* timed out and at least two retries were spent
C30_Witness ==
    \E r \in Requests :
        /\ pc[r] = "errorBody"
        /\ status[r] = 429
        /\ attempt[r] = cfg[owner[r]].maxRetries
        /\ attempt[r] >= 2
        /\ calls[r] = attempt[r] + 1
        /\ lastError[r].msg = "timeout"


\* C31: downloadI18nFile issues exactly one network call whatever the
\* response status or transport failure: it never waits at the gate, never
\* sleeps, sets no timer and never changes activeRequests, and for every
\* status >= 400 it raises the generic API error carrying that status
C31_DownloadBypassesExecutor ==
    [][\A r \in Requests :
        /\ downloadI18nFile(r)
           => /\ pc'[r] = "dl_fetching"
              /\ calls'[r] = 1
              /\ activeRequests' = activeRequests
        /\ (op[r] = "downloadI18nFile" /\ pc[r] \notin {"idle", "settled"})
           => /\ pc'[r] \in {"dl_fetching", "dl_errorBody", "dl_body", "settled"}
              /\ calls'[r] = 1
              /\ timer'[r] = "none"
              /\ (pc'[r] # pc[r] => activeRequests' = activeRequests)
        /\ (DownloadRejects(r) \/ \E ok \in BOOLEAN : DownloadBodyRead(r, ok))
           => Settled(r)'
        /\ \A body \in Bodies :
             DownloadErrorBodyRead(r, body)
             => /\ Settled(r)'
                /\ result'[r] = Err("API", status[r], "status")]_vars


\* C32: construction replaces every falsy option by its default
\* (maxRetries 0 by 3, maxConcurrent 0 by 5, timeout 0 by 30000, an empty
\* baseUrl by the production origin), stores every positive value as given
\* and strips exactly one trailing slash from baseUrl
C32_FalsyOptionsTakeDefaults ==
    \A x \in Clients :
        client[x] = "constructed"
        => LET o == options[x]
               u == IF o.baseUrl = <<>>
                    THEN <<"https://api.translateplus.io">> ELSE o.baseUrl
           IN  /\ cfg[x].maxRetries = IF o.maxRetries = 0 THEN 3 ELSE o.maxRetries
               /\ cfg[x].maxConcurrent =
                      IF o.maxConcurrent = 0 THEN 5 ELSE o.maxConcurrent
               /\ cfg[x].timeout = IF o.timeout = 0 THEN 30000 ELSE o.timeout
               /\ IF u[Len(u)] = "/"
                  THEN cfg[x].baseUrl \o <<"/">> = u
                  ELSE cfg[x].baseUrl = u

\* a client was constructed with a base URL ending in two slashes and no
\* timeout: one slash is left and the timeout is the default
C32_Witness ==
    \E x \in Clients :
        /\ client[x] = "constructed"
        /\ options[x].baseUrl = <<"https://example.test", "/", "/">>
        /\ options[x].timeout = 0
        /\ cfg[x].baseUrl = <<"https://example.test", "/">>
        /\ cfg[x].timeout = 30000


\* C33: every admitted makeRequest call settles, given that every network
\* call resolves, rejects or is aborted and every body read completes: it
\* sleeps only at an attempt below maxRetries, every sleep is followed by
\* the next attempt number, no step returns it to an earlier attempt or to
\* the admission wait, and so it ends after at most maxRetries + 1 attempts
\* and at most maxRetries sleeps
C33_AdmittedCallSettles ==
    /\ [][\A r \in Requests :
            Attempting(pc[r])
            => /\ pc'[r] \in {"fetching", "errorBody", "body", "backoff",
                              "settled"}
               /\ pc'[r] # "settled" => attempt'[r] >= attempt[r]
               /\ (pc'[r] = "backoff" /\ pc[r] # "backoff")
                  => attempt[r] < cfg[owner[r]].maxRetries
               /\ (pc[r] = "backoff" /\ pc'[r] # "backoff")
                  => /\ pc'[r] = "fetching"
                     /\ attempt'[r] = attempt[r] + 1
                     /\ attempt'[r] <= cfg[owner[r]].maxRetries]_vars
    /\ \A r \in Requests : Attempting(pc[r]) ~> Settled(r)

\* a call has returned the decoded body of its last attempt, after
\* maxRetries >= 2 sleeps
C33_Witness ==
    \E r \in Requests :
        /\ Settled(r)
        /\ op[r] = "makeRequest"
        /\ result[r].class = "ok"
        /\ calls[r] = cfg[owner[r]].maxRetries + 1
        /\ calls[r] >= 3


\* C34: every attempt has its own abort controller and timer, and the timer
\* is cancelled however the attempt ends: a timer is pending only while the
\* fetch of the attempt it was set for is pending, never during a backoff
\* sleep, a body read or after the call has settled, so the timer of
\* attempt k cannot abort attempt k + 1
C34_TimerBelongsToItsAttempt ==
    \A r \in Requests :
        /\ timer[r] = "pending"
           => /\ pc[r] = "fetching"
              /\ controller[r] = attempt[r]
        /\ pc[r] \in {"idle", "waiting", "backoff", "settled"}
           => timer[r] = "none"

\* the fetch of a second or later attempt is pending with the timer set
\* for that attempt, after the timer of an earlier attempt fired
C34_Witness ==
    \E r \in Requests :
        /\ pc[r] = "fetching"
        /\ attempt[r] >= 1
        /\ timer[r] = "pending"
        /\ controller[r] = attempt[r]
        /\ lastError[r].msg = "timeout"

====
